---------------------------- MODULE Spec2Model ----------------------------
(***************************************************************************)
(* Model of backend/common/src/node_types.rs (Substrate Telemetry).       *)
(*                                                                         *)
(* The file defines the record types sent to UI feeds and their           *)
(* hand-written serde serializers / deserializers.  The serializers are   *)
(* generic over the Serializer, so the wire is modelled at the level of   *)
(* the serde data model: a tuple is a sequence of tagged values, one per  *)
(* serialize_element call.                                                 *)
(*                                                                         *)
(* Values.  u64 fields are naturals; an f32 is one of a few named bit     *)
(* patterns (F32); a Box<str> is a string; a BlockHash is a sequence of   *)
(* HashLen bytes; an Option<u64> is <<>> (None) or <<n>> (Some(n)); a     *)
(* Result is <<"Err">> or <<"Ok", v>>.                                      *)
(***************************************************************************)
EXTENDS Integers, Sequences, FiniteSets, TLC

VARIABLES
    stats,      \* a NodeStats
    loc,        \* a NodeLocation
    details,    \* a BlockDetails
    io,         \* a NodeIO
    hw,         \* a NodeHardware
    clock,      \* the wall clock read by time::now()
    nowCalls,   \* number of clock reads made by the last operation
    wire,       \* the tuple last emitted by a serializer (or tampered with)
    rStats,     \* Result<NodeStats, _> if the last operation returned one
    rLoc,       \* Result<NodeLocation, _> if the last operation returned one
    rDetails,   \* Result<BlockDetails, _> if the last operation returned one
    op,         \* name of the last operation
    tampers,    \* number of edits made to the wire tuple in transit
    pushed      \* samples pushed so far, per collector (history)

vars == <<stats, loc, details, io, hw, clock, nowCalls, wire,
          rStats, rLoc, rDetails, op, tampers, pushed>>

----------------------------------------------------------------------------
(* Bounds of the model.                                                    *)

MaxCount == 6       \* peers and txcount range over 0..MaxCount
MaxClock == 3       \* the clock ticks at most MaxClock times
MaxTamper == 2      \* at most MaxTamper edits of a tuple in transit
MaxPush == 4        \* at most MaxPush samples pushed in total
MeanCount == 2      \* capacity of a collector's digest

HashLen == 32       \* BlockHash::from([0; 32])

----------------------------------------------------------------------------
(* The serde data model: one tagged value per tuple slot.                  *)
(*   k : the kind of the value                                             *)
(*   n : payload of an integer kind ("u64", "i64", "some")                 *)
(*   s : payload of "f32", "f64" and "str"                                 *)
(*   q : payload of "hash" (bytes) and "seq" (samples)                     *)

WVal(k, n, s, q) == [k |-> k, n |-> n, s |-> s, q |-> q]

WU64(n) == WVal("u64", n, "", <<>>)
WI64(n) == WVal("i64", n, "", <<>>)
WF32(f) == WVal("f32", 0, f, <<>>)
WF64(f) == WVal("f64", 0, f, <<>>)
WStr(s) == WVal("str", 0, s, <<>>)
WHash(h) == WVal("hash", 0, "", h)
WSeq(q) == WVal("seq", 0, "", q)
WNone == WVal("none", 0, "", <<>>)
WSome(n) == WVal("some", n, "", <<>>)

(* Option<u64>::serialize: serialize_none or serialize_some.               *)
WOption(o) == IF o = <<>> THEN WNone ELSE WSome(o[1])

(* Result values, and the absence of one.                                  *)
Err == <<"Err">>
Ok(v) == <<"Ok", v>>
IsErr(r) == Len(r) = 1
IsOk(r) == Len(r) = 2
NoResult == <<>>

----------------------------------------------------------------------------
(* f32 values: named bit patterns.                                         *)

F32 == {"NaN", "inf", "-inf", "0.0", "-0.0", "1.5"}

(* f32's PartialEq (IEEE comparison): NaN equals nothing, not even        *)
(* itself, and the two zeros are equal.                                    *)
F32Eq(a, b) ==
    /\ a # "NaN"
    /\ b # "NaN"
    /\ \/ a = b
       \/ {a, b} = {"0.0", "-0.0"}

(* An integer converted with `as f32`.                                     *)
IntAsF32(n) == ToString(n) \o ".0"

(* An f64 converted with `as f32`: out-of-range magnitudes become an      *)
(* infinity, the values used here are otherwise f32-representable.         *)
F64AsF32(f) ==
    CASE f = "1e300" -> "inf"
      [] f = "-1e300" -> "-inf"
      [] OTHER -> f

----------------------------------------------------------------------------
(* serde's primitive deserializers (the element types of the tuples the   *)
(* Deserialize impls ask for).  Each returns Ok(value) or Err.             *)

(* u64: any unsigned integer, or a signed one that is not negative.        *)
de_u64(w) ==
    IF w.k = "u64" THEN Ok(w.n)
    ELSE IF w.k = "i64" /\ w.n >= 0 THEN Ok(w.n)
    ELSE Err

(* f32: an f32, an f64 (narrowed) or any integer (converted).              *)
de_f32(w) ==
    IF w.k = "f32" THEN Ok(w.s)
    ELSE IF w.k = "f64" THEN Ok(F64AsF32(w.s))
    ELSE IF w.k \in {"u64", "i64"} THEN Ok(IntAsF32(w.n))
    ELSE Err

(* Box<str>: a string.                                                     *)
de_str(w) == IF w.k = "str" THEN Ok(w.s) ELSE Err

(* BlockHash (H256): HashLen bytes.                                        *)
de_hash(w) == IF w.k = "hash" /\ Len(w.q) = HashLen THEN Ok(w.q) ELSE Err

(* Option<u64>: none, or some of a u64; a format that writes Some(n) as   *)
(* plain n hands any other value to the u64 deserializer.                  *)
de_option_u64(w) ==
    IF w.k = "none" THEN Ok(<<>>)
    ELSE IF w.k = "some" THEN Ok(<<w.n>>)
    ELSE LET n == de_u64(w)
         IN IF IsErr(n) THEN Err ELSE Ok(<<n[2]>>)

----------------------------------------------------------------------------
(* NodeStats                                                               *)

NodeStats(peers, txcount) == [peers |-> peers, txcount |-> txcount]

(* impl Serialize for NodeStats                                            *)
NodeStats_serialize(self) == <<WU64(self.peers), WU64(self.txcount)>>

NodeStats_deserialize_swapped(w) ==
    IF Len(w) # 2 THEN Err
    ELSE LET peers == de_u64(w[1])
             txcount == de_u64(w[2])
         IN IF IsErr(peers) \/ IsErr(txcount) THEN Err
            ELSE Ok(NodeStats(txcount[2], peers[2]))

NodeStats_deserialize_truncating(w) ==
    IF Len(w) < 2 THEN Err
    ELSE LET peers == de_u64(w[1])
             txcount == de_u64(w[2])
         IN IF IsErr(peers) \/ IsErr(txcount) THEN Err
            ELSE Ok(NodeStats(peers[2], txcount[2]))

(* impl Deserialize for NodeStats: <(u64, u64)>::deserialize(..)?          *)
NodeStats_deserialize(w) ==
    IF Len(w) # 2 THEN Err
    ELSE LET peers == de_u64(w[1])
             txcount == de_u64(w[2])
         IN IF IsErr(peers) \/ IsErr(txcount) THEN Err
            ELSE Ok(NodeStats(peers[2], txcount[2]))

----------------------------------------------------------------------------
(* NodeLocation                                                            *)

NodeLocation(latitude, longitude, city) ==
    [latitude |-> latitude, longitude |-> longitude, city |-> city]

(* #[derive(PartialEq)] on NodeLocation: field by field, floats by IEEE   *)
(* comparison.                                                             *)
NodeLocation_eq(a, b) ==
    /\ F32Eq(a.latitude, b.latitude)
    /\ F32Eq(a.longitude, b.longitude)
    /\ a.city = b.city

(* impl Serialize for NodeLocation                                         *)
NodeLocation_serialize(self) ==
    <<WF32(self.latitude), WF32(self.longitude), WStr(self.city)>>

NodeLocation_deserialize_swapped(w) ==
    IF Len(w) # 3 THEN Err
    ELSE LET latitude == de_f32(w[1])
             longitude == de_f32(w[2])
             city == de_str(w[3])
         IN IF IsErr(latitude) \/ IsErr(longitude) \/ IsErr(city) THEN Err
            ELSE Ok(NodeLocation(longitude[2], latitude[2], city[2]))

(* impl Deserialize for NodeLocation:                                      *)
(* <(f32, f32, Box<str>)>::deserialize(..)?                                *)
NodeLocation_deserialize(w) ==
    IF Len(w) # 3 THEN Err
    ELSE LET latitude == de_f32(w[1])
             longitude == de_f32(w[2])
             city == de_str(w[3])
         IN IF IsErr(latitude) \/ IsErr(longitude) \/ IsErr(city) THEN Err
            ELSE Ok(NodeLocation(latitude[2], longitude[2], city[2]))

----------------------------------------------------------------------------
(* Block and BlockDetails                                                  *)

Block(hash, height) == [hash |-> hash, height |-> height]

(* Block::zero                                                             *)
Block_zero == Block([i \in 1..HashLen |-> 0], 0)

BlockDetails(block, block_time, block_timestamp, propagation_time) ==
    [block |-> block, block_time |-> block_time,
     block_timestamp |-> block_timestamp,
     propagation_time |-> propagation_time]

(* time::now(): the current wall-clock time.                               *)
time_now == clock

BlockDetails_default_stale(now) == BlockDetails(Block_zero, 0, 0, <<>>)

(* impl Default for BlockDetails, `now` being the value of time::now().    *)
BlockDetails_default(now) == BlockDetails(Block_zero, 0, now, <<>>)

BlockDetails_serialize_struct_order(self) ==
    <<WHash(self.block.hash), WU64(self.block.height), WU64(self.block_time),
      WU64(self.block_timestamp), WOption(self.propagation_time)>>

(* impl Serialize for BlockDetails                                         *)
BlockDetails_serialize(self) ==
    <<WU64(self.block.height), WHash(self.block.hash), WU64(self.block_time),
      WU64(self.block_timestamp), WOption(self.propagation_time)>>

BlockDetails_deserialize_swapped(w) ==
    IF Len(w) # 5 THEN Err
    ELSE LET t0 == de_u64(w[1])
             t1 == de_hash(w[2])
             t2 == de_u64(w[3])
             t3 == de_u64(w[4])
             t4 == de_option_u64(w[5])
         IN IF IsErr(t0) \/ IsErr(t1) \/ IsErr(t2) \/ IsErr(t3) \/ IsErr(t4)
            THEN Err
            ELSE Ok(BlockDetails(Block(t1[2], t0[2]), t3[2], t2[2], t4[2]))

(* impl Deserialize for BlockDetails:                                      *)
(* <(u64, BlockHash, u64, u64, Option<u64>)>::deserialize(..)?             *)
BlockDetails_deserialize(w) ==
    IF Len(w) # 5 THEN Err
    ELSE LET t0 == de_u64(w[1])
             t1 == de_hash(w[2])
             t2 == de_u64(w[3])
             t3 == de_u64(w[4])
             t4 == de_option_u64(w[5])
         IN IF IsErr(t0) \/ IsErr(t1) \/ IsErr(t2) \/ IsErr(t3) \/ IsErr(t4)
            THEN Err
            ELSE Ok(BlockDetails(Block(t1[2], t0[2]), t2[2], t3[2], t4[2]))

----------------------------------------------------------------------------
(* MeanList: the rolling sample collector held by NodeIO and NodeHardware. *)
(* Samples are integers standing for the float samples.  A collector      *)
(* sums `ticks_per_mean` samples into one mean; when its MeanCount means  *)
(* are all in use it halves them pairwise and doubles `ticks_per_mean`.   *)

MeanList_default ==
    [period_sum |-> 0, period_count |-> 0, means |-> <<>>, ticks_per_mean |-> 1]

MeanList_squash(m) ==
    [m EXCEPT !.means = [i \in 1..(MeanCount \div 2) |->
                            (m.means[2 * i - 1] + m.means[2 * i]) \div 2],
              !.ticks_per_mean = 2 * m.ticks_per_mean]

MeanList_push(m, val) ==
    LET m1 == IF Len(m.means) = MeanCount THEN MeanList_squash(m) ELSE m
        sum == m1.period_sum + val
        cnt == m1.period_count + 1
    IN IF cnt = m1.ticks_per_mean
       THEN [m1 EXCEPT !.means = Append(m1.means, sum \div cnt),
                       !.period_sum = 0, !.period_count = 0]
       ELSE [m1 EXCEPT !.period_sum = sum, !.period_count = cnt]

(* MeanList::slice: the means collected so far.                            *)
MeanList_slice(m) == m.means

(* The collector after the samples of `h` were pushed, oldest first.       *)
RECURSIVE MeanList_after(_)
MeanList_after(h) ==
    IF h = <<>> THEN MeanList_default
    ELSE MeanList_push(MeanList_after(SubSeq(h, 1, Len(h) - 1)), h[Len(h)])

----------------------------------------------------------------------------
(* NodeIO and NodeHardware                                                 *)

(* #[derive(Default)] struct NodeIO                                        *)
NodeIO_default == [used_state_cache_size |-> MeanList_default]

NodeIO_serialize_no_samples(self) == <<WSeq(<<>>)>>

(* impl Serialize for NodeIO                                               *)
NodeIO_serialize(self) == <<WSeq(MeanList_slice(self.used_state_cache_size))>>

(* #[derive(Default)] struct NodeHardware                                  *)
NodeHardware_default ==
    [upload |-> MeanList_default, download |-> MeanList_default,
     chart_stamps |-> MeanList_default]

NodeHardware_serialize_misordered(self) ==
    <<WSeq(MeanList_slice(self.download)),
      WSeq(MeanList_slice(self.upload)),
      WSeq(MeanList_slice(self.chart_stamps))>>

(* impl Serialize for NodeHardware                                         *)
NodeHardware_serialize(self) ==
    <<WSeq(MeanList_slice(self.upload)),
      WSeq(MeanList_slice(self.download)),
      WSeq(MeanList_slice(self.chart_stamps))>>

----------------------------------------------------------------------------
(* Input values.                                                           *)

Counts == 0..MaxCount
Cities == {"", "Berlin"}
Hash1 == [i \in 1..HashLen |-> i]
Hashes == {Block_zero.hash, Hash1}
Heights == {0, 5}
BlockTimes == {0, 2}
Timestamps == {0, 1000}
Propagations == {<<>>, <<7>>}
Samples == {1, 3}
Collectors == {"used_state_cache_size", "upload", "download", "chart_stamps"}

AllNodeStats == {NodeStats(p, t) : p \in Counts, t \in Counts}
AllNodeLocation == {NodeLocation(a, b, c) : a \in F32, b \in F32, c \in Cities}
AllBlockDetails ==
    {BlockDetails(Block(h, n), bt, ts, pt) :
        h \in Hashes, n \in Heights, bt \in BlockTimes, ts \in Timestamps,
        pt \in Propagations}

(* The records held when a specification is not about their type.          *)
SomeNodeStats == NodeStats(1, 2)
SomeNodeLocation == NodeLocation("1.5", "-0.0", "Berlin")
SomeBlockDetails == BlockDetails(Block(Hash1, 5), 2, 1000, <<7>>)

(* Values a tuple in transit may carry in a slot.                          *)
WireValues ==
    {WU64(1), WI64(4), WI64(-1), WF32("1.5"), WF64("1e300"), WStr("Berlin"),
     WHash(Hash1), WHash(<<0>>), WSeq(<<>>), WNone, WSome(7)}

----------------------------------------------------------------------------
(* Initial states.                                                         *)

InitRest ==
    /\ io = NodeIO_default
    /\ hw = NodeHardware_default
    /\ clock = 0
    /\ nowCalls = 0
    /\ wire = <<>>
    /\ rStats = NoResult
    /\ rLoc = NoResult
    /\ rDetails = NoResult
    /\ op = "init"
    /\ tampers = 0
    /\ pushed = [c \in Collectors |-> <<>>]

Init ==
    /\ stats = SomeNodeStats
    /\ loc = SomeNodeLocation
    /\ details = SomeBlockDetails
    /\ InitRest

InitStats ==
    /\ stats \in AllNodeStats
    /\ loc = SomeNodeLocation
    /\ details = SomeBlockDetails
    /\ InitRest

InitLocation ==
    /\ stats = SomeNodeStats
    /\ loc \in AllNodeLocation
    /\ details = SomeBlockDetails
    /\ InitRest

InitBlock ==
    /\ stats = SomeNodeStats
    /\ loc = SomeNodeLocation
    /\ details \in AllBlockDetails
    /\ InitRest

----------------------------------------------------------------------------
(* Operations.                                                             *)

records == <<stats, loc, details, io, hw>>

(* The operation returned no Result.                                       *)
NoResults ==
    /\ rStats' = NoResult
    /\ rLoc' = NoResult
    /\ rDetails' = NoResult

(* A serializer emits a fresh tuple and reads no clock.                    *)
Emit(tuple, name) ==
    /\ wire' = tuple
    /\ op' = name
    /\ tampers' = 0
    /\ nowCalls' = 0
    /\ UNCHANGED <<clock, pushed>>
    /\ NoResults

SerializeNodeStats ==
    /\ Emit(NodeStats_serialize(stats), "NodeStats::serialize")
    /\ UNCHANGED records

SerializeNodeIO_draining ==
    /\ Emit(NodeIO_serialize(io), "NodeIO::serialize")
    /\ io' = NodeIO_default
    /\ UNCHANGED <<stats, loc, details, hw>>

SerializeNodeIO ==
    /\ Emit(NodeIO_serialize(io), "NodeIO::serialize")
    /\ UNCHANGED records

SerializeNodeHardware ==
    /\ Emit(NodeHardware_serialize(hw), "NodeHardware::serialize")
    /\ UNCHANGED records

SerializeNodeLocation ==
    /\ Emit(NodeLocation_serialize(loc), "NodeLocation::serialize")
    /\ UNCHANGED records

SerializeBlockDetails ==
    /\ Emit(BlockDetails_serialize(details), "BlockDetails::serialize")
    /\ UNCHANGED records

(* A deserializer consumes the tuple in transit and returns a Result.      *)
DeserializeNodeStats ==
    /\ rStats' = NodeStats_deserialize(wire)
    /\ op' = "NodeStats::deserialize"
    /\ nowCalls' = 0
    /\ rLoc' = NoResult
    /\ rDetails' = NoResult
    /\ UNCHANGED <<wire, tampers, clock, pushed>>
    /\ UNCHANGED records

DeserializeNodeLocation ==
    /\ rLoc' = NodeLocation_deserialize(wire)
    /\ op' = "NodeLocation::deserialize"
    /\ nowCalls' = 0
    /\ rStats' = NoResult
    /\ rDetails' = NoResult
    /\ UNCHANGED <<wire, tampers, clock, pushed>>
    /\ UNCHANGED records

DeserializeBlockDetails ==
    /\ rDetails' = BlockDetails_deserialize(wire)
    /\ op' = "BlockDetails::deserialize"
    /\ nowCalls' = 0
    /\ rStats' = NoResult
    /\ rLoc' = NoResult
    /\ UNCHANGED <<wire, tampers, clock, pushed>>
    /\ UNCHANGED records

(* BlockDetails::default(): one call of time::now().                       *)
DefaultBlockDetails ==
    /\ details' = BlockDetails_default(time_now)
    /\ nowCalls' = 1
    /\ op' = "BlockDetails::default"
    /\ UNCHANGED <<stats, loc, io, hw, clock, wire, tampers, pushed>>
    /\ NoResults

(* The wall clock advances.                                                *)
Tick ==
    /\ clock < MaxClock
    /\ clock' = clock + 1
    /\ nowCalls' = 0
    /\ op' = "tick"
    /\ UNCHANGED <<wire, tampers, pushed>>
    /\ UNCHANGED records
    /\ NoResults

(* The owner of a collector pushes a sample to it.                         *)
TotalPushed == Len(pushed["used_state_cache_size"]) + Len(pushed["upload"])
               + Len(pushed["download"]) + Len(pushed["chart_stamps"])

Pushed(c, val) ==
    /\ TotalPushed < MaxPush
    /\ pushed' = [pushed EXCEPT ![c] = Append(@, val)]
    /\ op' = "push"
    /\ nowCalls' = 0
    /\ UNCHANGED <<stats, loc, details, clock, wire, tampers>>
    /\ NoResults

PushUsedStateCacheSize ==
    \E val \in Samples :
        /\ Pushed("used_state_cache_size", val)
        /\ io' = [io EXCEPT !.used_state_cache_size = MeanList_push(@, val)]
        /\ UNCHANGED hw

PushUpload ==
    \E val \in Samples :
        /\ Pushed("upload", val)
        /\ hw' = [hw EXCEPT !.upload = MeanList_push(@, val)]
        /\ UNCHANGED io

PushDownload ==
    \E val \in Samples :
        /\ Pushed("download", val)
        /\ hw' = [hw EXCEPT !.download = MeanList_push(@, val)]
        /\ UNCHANGED io

PushChartStamps ==
    \E val \in Samples :
        /\ Pushed("chart_stamps", val)
        /\ hw' = [hw EXCEPT !.chart_stamps = MeanList_push(@, val)]
        /\ UNCHANGED io

(* The tuple handed to a deserializer need not be one a serializer        *)
(* emitted: it may have lost its last slot, gained a slot, or carry       *)
(* another value in a slot.                                                *)
Tampered(tuple) ==
    /\ tampers < MaxTamper
    /\ wire' = tuple
    /\ tampers' = tampers + 1
    /\ op' = "tamper"
    /\ nowCalls' = 0
    /\ UNCHANGED <<clock, pushed>>
    /\ UNCHANGED records
    /\ NoResults

TamperTruncate ==
    /\ wire # <<>>
    /\ Tampered(SubSeq(wire, 1, Len(wire) - 1))

TamperExtend == \E v \in WireValues : Tampered(Append(wire, v))

TamperRetype ==
    \E i \in 1..Len(wire), v \in WireValues :
        /\ v # wire[i]
        /\ Tampered([wire EXCEPT ![i] = v])

----------------------------------------------------------------------------
(* Specifications.                                                         *)

(* NodeStats over all its values.                                          *)
NextStats == SerializeNodeStats \/ DeserializeNodeStats
SpecStats == InitStats /\ [][NextStats]_vars

(* NodeLocation over all its values.                                       *)
NextLocation == SerializeNodeLocation \/ DeserializeNodeLocation
SpecLocation == InitLocation /\ [][NextLocation]_vars

(* BlockDetails over all its values, and its default construction.         *)
NextBlock ==
    \/ SerializeBlockDetails
    \/ DeserializeBlockDetails
    \/ DefaultBlockDetails
    \/ Tick
SpecBlock == InitBlock /\ [][NextBlock]_vars

(* The three deserializers on well-formed and malformed tuples.            *)
NextDecode ==
    \/ SerializeNodeStats
    \/ SerializeNodeLocation
    \/ SerializeBlockDetails
    \/ DeserializeNodeStats
    \/ DeserializeNodeLocation
    \/ DeserializeBlockDetails
    \/ TamperTruncate
    \/ TamperExtend
    \/ TamperRetype
SpecDecode == Init /\ [][NextDecode]_vars

(* The five serializers while samples are pushed to the collectors.        *)
NextDigest ==
    \/ SerializeNodeStats
    \/ SerializeNodeIO
    \/ SerializeNodeHardware
    \/ SerializeNodeLocation
    \/ SerializeBlockDetails
    \/ PushUsedStateCacheSize
    \/ PushUpload
    \/ PushDownload
    \/ PushChartStamps
SpecDigest == Init /\ [][NextDigest]_vars

----------------------------------------------------------------------------
(* Properties.                                                             *)

(* C1: BlockDetails::serialize emits the 5 slots (block.height,           *)
(* block.hash, block_time, block_timestamp, propagation_time), in that    *)
(* order.                                                                  *)
C1_BlockDetailsWireOrder ==
    op = "BlockDetails::serialize" =>
        /\ Len(wire) = 5
        /\ wire[1] = WU64(details.block.height)
        /\ wire[2] = WHash(details.block.hash)
        /\ wire[3] = WU64(details.block_time)
        /\ wire[4] = WU64(details.block_timestamp)
        /\ wire[5] = WOption(details.propagation_time)

(* The example: {block: {height: 5, hash: H}, block_time: 2,              *)
(* block_timestamp: 1000, propagation_time: Some(7)} was serialized to    *)
(* (5, H, 2, 1000, Some(7)).                                               *)
C1_Witness ==
    /\ op = "BlockDetails::serialize"
    /\ details = BlockDetails(Block(Hash1, 5), 2, 1000, <<7>>)
    /\ wire = <<WU64(5), WHash(Hash1), WU64(2), WU64(1000), WSome(7)>>

(* C2: deserializing the tuple serialized from a BlockDetails gives back  *)
(* an equal BlockDetails, its block rebuilt from slots 1 and 2 and its    *)
(* block_timestamp taken from slot 4.                                      *)
C2_BlockDetailsRoundTrip ==
    (op = "BlockDetails::deserialize" /\ wire = BlockDetails_serialize(details)) =>
        /\ rDetails = Ok(details)
        /\ rDetails[2].block.height = wire[1].n
        /\ rDetails[2].block.hash = wire[2].q
        /\ rDetails[2].block_timestamp = wire[4].n

C2_Witness ==
    /\ op = "BlockDetails::deserialize"
    /\ details = BlockDetails(Block(Hash1, 5), 2, 1000, <<7>>)
    /\ wire = BlockDetails_serialize(details)
    /\ rDetails = Ok(details)
    /\ clock # details.block_timestamp

(* C3: NodeStats::serialize emits the 2 slots (peers, txcount), and       *)
(* deserializing that tuple gives back an equal NodeStats.                 *)
C3_NodeStatsRoundTrip ==
    /\ op = "NodeStats::serialize" =>
           wire = <<WU64(stats.peers), WU64(stats.txcount)>>
    /\ (op = "NodeStats::deserialize" /\ wire = NodeStats_serialize(stats)) =>
           rStats = Ok(stats)

C3_Witness ==
    /\ op = "NodeStats::deserialize"
    /\ stats.peers # stats.txcount
    /\ wire = NodeStats_serialize(stats)
    /\ rStats = Ok(stats)

(* C4 as claimed: deserializing the tuple serialized from a NodeLocation  *)
(* gives a NodeLocation equal to it under the derived PartialEq, whatever *)
(* its latitude and longitude.                                             *)
C4_NodeLocationRoundTripEq ==
    (op = "NodeLocation::deserialize" /\ wire = NodeLocation_serialize(loc)) =>
        /\ IsOk(rLoc)
        /\ NodeLocation_eq(rLoc[2], loc)

(* C4 as amended: NodeLocation::serialize emits the 3 slots (latitude,    *)
(* longitude, city); deserializing that tuple succeeds and gives back     *)
(* the same latitude and longitude bit patterns and the same city; the    *)
(* result equals the original under the derived PartialEq exactly when    *)
(* neither latitude nor longitude is NaN.                                  *)
C4_NodeLocationRoundTripBits ==
    /\ op = "NodeLocation::serialize" =>
           wire = <<WF32(loc.latitude), WF32(loc.longitude), WStr(loc.city)>>
    /\ (op = "NodeLocation::deserialize" /\ wire = NodeLocation_serialize(loc)) =>
           /\ rLoc = Ok(loc)
           /\ NodeLocation_eq(rLoc[2], loc) <=>
                  (loc.latitude # "NaN" /\ loc.longitude # "NaN")

C4_Witness ==
    /\ op = "NodeLocation::deserialize"
    /\ wire = NodeLocation_serialize(loc)
    /\ loc.latitude = "NaN"
    /\ loc.longitude = "1.5"
    /\ rLoc = Ok(loc)
    /\ ~NodeLocation_eq(rLoc[2], loc)

(* The shapes the three tuple types declare: arity and the type of each   *)
(* slot.                                                                   *)
DeclaredShapeNodeStats(w) ==
    /\ Len(w) = 2
    /\ w[1].k = "u64"
    /\ w[2].k = "u64"

DeclaredShapeNodeLocation(w) ==
    /\ Len(w) = 3
    /\ w[1].k = "f32"
    /\ w[2].k = "f32"
    /\ w[3].k = "str"

DeclaredShapeBlockDetails(w) ==
    /\ Len(w) = 5
    /\ w[1].k = "u64"
    /\ w[2].k = "hash"
    /\ w[3].k = "u64"
    /\ w[4].k = "u64"
    /\ w[5].k \in {"none", "some", "u64"}

NonNegativeInteger(w) == w.k = "u64" \/ (w.k = "i64" /\ w.n >= 0)
Number(w) == w.k \in {"u64", "i64", "f32", "f64"}

C6_NodeHardwareDigestOrder ==
    op = "NodeHardware::serialize" =>
        /\ Len(wire) = 3
        /\ wire[1] = WSeq(MeanList_slice(hw.upload))
        /\ wire[2] = WSeq(MeanList_slice(hw.download))
        /\ wire[3] = WSeq(MeanList_slice(hw.chart_stamps))
        /\ wire[1].q = MeanList_slice(MeanList_after(pushed["upload"]))
        /\ wire[2].q = MeanList_slice(MeanList_after(pushed["download"]))
        /\ wire[3].q = MeanList_slice(MeanList_after(pushed["chart_stamps"]))

(* Three different digests were emitted, upload having been compacted.     *)
C6_Witness ==
    /\ op = "NodeHardware::serialize"
    /\ hw.upload.ticks_per_mean = 2
    /\ wire[1].q # <<>>
    /\ wire[1].q # wire[2].q
    /\ wire[2].q # wire[3].q
    /\ wire[1].q # wire[3].q

(* C7: NodeIO::serialize emits 1 slot: the means of                        *)
(* used_state_cache_size at the call, that is the digest of exactly the   *)
(* samples pushed before the call.                                         *)
C7_NodeIODigestAtEncode ==
    op = "NodeIO::serialize" =>
        /\ Len(wire) = 1
        /\ wire[1] = WSeq(MeanList_slice(io.used_state_cache_size))
        /\ wire[1].q =
               MeanList_slice(MeanList_after(pushed["used_state_cache_size"]))

C7_Witness ==
    /\ op = "NodeIO::serialize"
    /\ Len(pushed["used_state_cache_size"]) = 2
    /\ wire = <<WSeq(pushed["used_state_cache_size"])>>

(* C8: BlockDetails::default() reads the clock once and returns the zero  *)
(* Block (height 0, hash of 32 zero bytes), block_time 0, no              *)
(* propagation_time, and the clock value as block_timestamp.               *)
C8_BlockDetailsDefault ==
    op = "BlockDetails::default" =>
        /\ nowCalls = 1
        /\ details.block.height = 0
        /\ details.block.hash = [i \in 1..32 |-> 0]
        /\ details.block_time = 0
        /\ details.propagation_time = <<>>
        /\ details.block_timestamp = clock

C8_Witness ==
    /\ op = "BlockDetails::default"
    /\ clock = 2
    /\ details.block_timestamp = 2
    /\ details.block = Block_zero

(* C10: a serializer changes no record and no collector, and serializing  *)
(* the same record again right away emits the same tuple.                  *)
SerializeOps ==
    {"NodeStats::serialize", "NodeIO::serialize", "NodeHardware::serialize",
     "NodeLocation::serialize", "BlockDetails::serialize"}

C10_SerializeReadsOnly ==
    [][/\ op' \in SerializeOps => UNCHANGED records
       /\ (op \in SerializeOps /\ op' = op) => wire' = wire]_vars

(* A collector in the middle of a period, after compaction, was           *)
(* serialized.                                                             *)
C10_Witness ==
    /\ op = "NodeIO::serialize"
    /\ io.used_state_cache_size.ticks_per_mean = 2
    /\ io.used_state_cache_size.period_count = 1
    /\ wire[1].q = io.used_state_cache_size.means
    /\ wire[1].q # <<>>

=============================================================================
